---------------------------- MODULE Spec2Model ----------------------------
(***************************************************************************)
(* Model of the discord receipt bot: the three-step order form             *)
(* (src/bot/discord_ui.py), the command that starts it                     *)
(* (src/bot/bot_commands.py) and the mail service                          *)
(* (src/bot/email_utils.py).                                               *)
(*                                                                         *)
(* The handlers are coroutines of one asyncio event loop: the code between *)
(* two awaits runs atomically, and every await on the chat platform or on  *)
(* the mail transport is a point where other handlers run.  An action of   *)
(* this module is one such atomic block.                                   *)
(***************************************************************************)
EXTENDS Integers, Sequences, FiniteSets, TLC

\* ------------------------------------------------------------------ bounds
\* Modal instances (forms) created in one run.
MaxModals == 4
\* /order_form commands that open a form in one run.
MaxFlows == 2

\* ------------------------------------------------------------------ inputs
Users == {"u1", "u2"}

\* Email arguments of /order_form, as sequences of characters.
GoodEmail1 == <<"a", "@", "b", ".", "c">>
GoodEmail2 == <<"d", "@", "b", ".", "c">>
BadEmail   == <<"a", "@", "b">>
Emails == {GoodEmail1, GoodEmail2, BadEmail}

\* Texts a user types into a field of a form.
Values == {"x", "y"}

\* ------------------------------------------------------------ is_valid_email
Alnum == {"a", "b", "c", "d"}
LocalChars == Alnum \cup {"_", ".", "+", "-"}
DomainChars == Alnum \cup {"-"}
RestChars == Alnum \cup {"-", "."}

AllIn(s, lo, hi, chars) == \A i \in lo..hi : s[i] \in chars

\* The pattern between ^ and $ matches the whole of email.
FullMatch(email) ==
    \E i \in 2..Len(email) : \E j \in (i + 2)..(Len(email) - 1) :
        /\ email[i] = "@"
        /\ email[j] = "."
        /\ AllIn(email, 1, i - 1, LocalChars)
        /\ AllIn(email, i + 1, j - 1, DomainChars)
        /\ AllIn(email, j + 1, Len(email), RestChars)

\* A validation whose pattern stops after the domain: local@domain.
is_valid_email_NoTld(email) ==
    \E i \in 2..(Len(email) - 1) :
        /\ email[i] = "@"
        /\ AllIn(email, 1, i - 1, LocalChars)
        /\ AllIn(email, i + 1, Len(email), DomainChars)

\* re.match(r'^[a-zA-Z0-9_.+-]+@[a-zA-Z0-9-]+\.[a-zA-Z0-9-.]+$', email):
\* $ matches at the end of the string and also before a newline that ends it.
is_valid_email(email) ==
    \/ FullMatch(email)
    \/ /\ Len(email) > 0
       /\ email[Len(email)] = "\n"
       /\ FullMatch(SubSeq(email, 1, Len(email) - 1))

\* ------------------------------------------------------------------- forms
Step1Keys == {"order_number", "estimated_arrival_start_date",
              "estimated_arrival_end_date", "product_image_url", "product_name"}
Step2Keys == {"style_id", "product_size", "product_condition",
              "purchase_price", "color"}
Step3Keys == {"shipping_address", "notes"}

\* The keys the order summary reads from merged_data.
SummaryKeys == {"product_name", "purchase_price", "estimated_arrival_start_date",
                "estimated_arrival_end_date", "style_id", "product_size", "color",
                "product_condition", "shipping_address"}

\* {key: field.value for key, field in self.form_fields.items()}
FormData(keys, v) == [k \in keys |-> v]

EmptyDict == [k \in {} |-> "x"]

\* {**d, **e}: the keys of both, e's value where both have the key.
DictUpdate(d, e) ==
    [k \in (DOMAIN d) \cup (DOMAIN e) |-> IF k \in DOMAIN e THEN e[k] ELSE d[k]]

\* A mis-ordered merge: the earlier step's value survives a collision.
MergedDataFirstWins(step1_data, step2_data, final_step_data) ==
    DictUpdate(final_step_data, DictUpdate(step2_data, step1_data))

\* merged_data = {**self.step1_data, **self.step2_data, **final_step_data}
MergedData(step1_data, step2_data, final_step_data) ==
    DictUpdate(DictUpdate(step1_data, step2_data), final_step_data)

VARIABLES
    temp_order_data,  \* bot.temp_order_data: user_id -> session record
    origin,           \* history: the flow that wrote each part of a session record
    modals,           \* the forms created so far, with their handlers' positions
    last,             \* the last answer to an interaction: to whom, and what
    client,           \* EmailService.client: 0 (None) or a transport
    transports,       \* the aiosmtplib.SMTP objects created so far
    lock,             \* EmailService._lock: its holder, then its waiters in order
    callers,          \* the callers of the mail service, with their positions
    merge_in,         \* the three dictionaries handed to the merge
    merge_out,        \* the merged dictionary
    email_in,         \* the string handed to is_valid_email
    email_out,        \* its answer
    body_in,          \* the template and the data handed to the body rendering
    body_out,         \* the rendered body
    server,           \* the mail server: healthy or not, and the sends begun since
    mono_store,       \* main.py, bot.temp_order_data: one record for the whole bot
    mono_owner,       \* history: the user whose Step-1 submit wrote that record
    mono_forms,       \* main.py: the forms created so far
    mono_last,        \* main.py: the last answer to an interaction
    email_template,   \* main.py: the keys of the loaded email template
    asend,            \* the calls of the asynchronous send_email that have ended
    order_data,       \* bot/main.py, EnhancedReceiptBot.order_data
    rate_limit_buckets, \* bot/main.py, EnhancedReceiptBot.rate_limit_buckets
    clock,            \* time.time()
    rate_hist,        \* history: the times of the allowed calls, by key
    maint_last        \* history: the last call of bot/main.py and its answer

flowVars == <<temp_order_data, origin, modals, last>>

mailVars == <<client, transports, lock, callers>>

mergeVars == <<merge_in, merge_out>>

funVars == <<email_in, email_out, body_in, body_out>>

monoVars == <<mono_store, mono_owner, mono_forms, mono_last, email_template>>

maintVars == <<order_data, rate_limit_buckets, clock, rate_hist, maint_last>>

vars == <<temp_order_data, origin, modals, last, client, transports, lock,
          callers, merge_in, merge_out, email_in, email_out, body_in, body_out,
          server, mono_store, mono_owner, mono_forms, mono_last, email_template,
          asend, order_data, rate_limit_buckets, clock, rate_hist, maint_last>>

ModalIds == 1..Len(modals)

Flows == {m \in ModalIds : modals[m].kind = 1}

HasSession(u) == u \in DOMAIN temp_order_data

\* What a handler answers its interaction with; an exception that leaves the
\* handler is answered by the platform's "interaction failed".
Show(u, what) == [user |-> u, what |-> what]

NewModal(kind, u, email, flow, s1, s2) ==
    [kind |-> kind, user |-> u, user_email |-> email, flow |-> flow,
     step1_data |-> s1, step2_data |-> s2, merged_data |-> EmptyDict,
     pc |-> "open", ev |-> <<>>]

FlowInit ==
    /\ temp_order_data = [u \in {} |-> EmptyDict]
    /\ origin = [u \in {} |-> EmptyDict]
    /\ modals = <<>>
    /\ last = [user |-> "none", what |-> "none"]

\* An /order_form that presents the Step-1 form whatever the email is.
order_form_command_NoValidation(u, email) ==
    /\ Len(modals) < MaxModals
    /\ Cardinality(Flows) < MaxFlows
    /\ modals' = Append(modals,
           NewModal(1, u, email, Len(modals) + 1, EmptyDict, EmptyDict))
    /\ last' = Show(u, "form1")
    /\ UNCHANGED <<temp_order_data, origin>>

\* An /order_form that creates the user's session when it presents the form.
order_form_command_CreatesSession(u, email) ==
    IF ~is_valid_email(email)
    THEN /\ last' = Show(u, "invalid_email")
         /\ UNCHANGED <<modals, temp_order_data, origin>>
    ELSE /\ Len(modals) < MaxModals
         /\ Cardinality(Flows) < MaxFlows
         /\ modals' = Append(modals,
                NewModal(1, u, email, Len(modals) + 1, EmptyDict, EmptyDict))
         /\ last' = Show(u, "form1")
         /\ temp_order_data' =
                [x \in (DOMAIN temp_order_data) \cup {u} |->
                    IF x = u THEN [email |-> email, step1_data |-> EmptyDict]
                    ELSE temp_order_data[x]]
         /\ origin' = [x \in (DOMAIN origin) \cup {u} |->
                          IF x = u THEN [s1 |-> 0, s2 |-> 0] ELSE origin[x]]

\* /order_form: validate the email, then present the Step-1 form.
order_form_command(u, email) ==
    /\ IF ~is_valid_email(email)
       THEN /\ last' = Show(u, "invalid_email")
            /\ UNCHANGED modals
       ELSE /\ Len(modals) < MaxModals
            /\ Cardinality(Flows) < MaxFlows
            /\ modals' = Append(modals,
                   NewModal(1, u, email, Len(modals) + 1, EmptyDict, EmptyDict))
            /\ last' = Show(u, "form1")
    /\ UNCHANGED <<temp_order_data, origin>>

\* dict[key] = value
DictSet(d, key, value) ==
    [x \in (DOMAIN d) \cup {key} |-> IF x = key THEN value ELSE d[x]]

\* del dict[key]
DictDel(d, key) == [x \in (DOMAIN d) \ {key} |-> d[x]]

SetModal(m, rec) == [modals EXCEPT ![m] = rec]

\* A Step-1 submit that updates the user's record in place, keeping the
\* fields the new dictionary does not name.
Step1StoreKeepingOld(store, u, email, user_data) ==
    DictSet(store, u,
        IF u \in DOMAIN store
        THEN DictSet(DictSet(store[u], "email", email), "step1_data", user_data)
        ELSE [email |-> email, step1_data |-> user_data])

\* self.bot_instance.temp_order_data[user_id] = {'email': ..., 'step1_data': ...}
Step1Store(store, u, email, user_data) ==
    DictSet(store, u, [email |-> email, step1_data |-> user_data])

\* A Step-1 submit that opens the Step-2 form at once, without a button.
Step1SubmitOpensStep2(m) ==
    LET f == modals[m] IN
    /\ f.kind = 1 /\ f.pc = "open"
    /\ Len(modals) < MaxModals
    /\ \E v \in Values :
         /\ temp_order_data' = Step1Store(temp_order_data, f.user, f.user_email,
                                          FormData(Step1Keys, v))
         /\ modals' = Append(SetModal(m, [f EXCEPT !.pc = "submitted"]),
                NewModal(2, f.user, f.user_email, f.flow,
                         FormData(Step1Keys, v), EmptyDict))
    /\ origin' = DictSet(origin, f.user, [s1 |-> f.flow, s2 |-> 0])
    /\ last' = Show(f.user, "form2")

\* OrderFormStep1.on_submit: store the record, present "Continue to Step 2".
Step1Submit(m) ==
    LET f == modals[m] IN
    /\ f.kind = 1 /\ f.pc = "open"
    /\ \E v \in Values :
         temp_order_data' = Step1Store(temp_order_data, f.user, f.user_email,
                                       FormData(Step1Keys, v))
    /\ origin' = DictSet(origin, f.user, [s1 |-> f.flow, s2 |-> 0])
    /\ modals' = SetModal(m, [f EXCEPT !.pc = "submitted"])
    /\ last' = Show(f.user, "continue2")

\* The "Continue to Step 2" button of a submitted Step-1 form: its callback
\* builds OrderFormStep2, whose __init__ reads the user's record.
ContinueStep2(m) ==
    LET f == modals[m] IN
    /\ f.kind = 1 /\ f.pc = "submitted"
    /\ IF ~HasSession(f.user)
       THEN /\ last' = Show(f.user, "KeyError")
            /\ UNCHANGED modals
       ELSE /\ Len(modals) < MaxModals
            /\ modals' = Append(modals,
                   NewModal(2, f.user, f.user_email, f.flow,
                            temp_order_data[f.user]["step1_data"], EmptyDict))
            /\ last' = Show(f.user, "form2")
    /\ UNCHANGED <<temp_order_data, origin>>

\* A Step-2 submit that creates the user's record when there is none.
Step2SubmitCreatesRecord(m) ==
    LET f == modals[m]
        rec == IF HasSession(f.user) THEN temp_order_data[f.user]
               ELSE [email |-> f.user_email]
    IN
    /\ f.kind = 2 /\ f.pc = "open"
    /\ \E v \in Values :
         temp_order_data' = DictSet(temp_order_data, f.user,
             DictSet(rec, "step2_data", FormData(Step2Keys, v)))
    /\ origin' = DictSet(origin, f.user,
                     [s1 |-> IF HasSession(f.user) THEN origin[f.user].s1 ELSE 0,
                      s2 |-> f.flow])
    /\ modals' = SetModal(m, [f EXCEPT !.pc = "submitted"])
    /\ last' = Show(f.user, "continue3")

\* OrderFormStep2.on_submit: write step2_data into the user's record, present
\* "Continue to Final Step".
Step2Submit(m) ==
    LET f == modals[m] IN
    /\ f.kind = 2 /\ f.pc = "open"
    /\ IF ~HasSession(f.user)
       THEN /\ modals' = SetModal(m, [f EXCEPT !.pc = "failed"])
            /\ last' = Show(f.user, "KeyError")
            /\ UNCHANGED <<temp_order_data, origin>>
       ELSE /\ \E v \in Values :
                 temp_order_data' = DictSet(temp_order_data, f.user,
                     DictSet(temp_order_data[f.user], "step2_data",
                             FormData(Step2Keys, v)))
            /\ origin' = [origin EXCEPT ![f.user].s2 = f.flow]
            /\ modals' = SetModal(m, [f EXCEPT !.pc = "submitted"])
            /\ last' = Show(f.user, "continue3")

\* user_specific_data.get('step2_data', {})
GetStep2(rec) == IF "step2_data" \in DOMAIN rec THEN rec["step2_data"] ELSE EmptyDict

\* The "Continue to Final Step" button of a submitted Step-2 form: its callback
\* builds OrderFormStep3, whose __init__ reads the user's record.
ContinueFinal(m) ==
    LET f == modals[m] IN
    /\ f.kind = 2 /\ f.pc = "submitted"
    /\ IF ~HasSession(f.user)
       THEN /\ last' = Show(f.user, "KeyError")
            /\ UNCHANGED modals
       ELSE /\ Len(modals) < MaxModals
            /\ modals' = Append(modals,
                   NewModal(3, f.user, f.user_email, f.flow,
                            temp_order_data[f.user]["step1_data"],
                            GetStep2(temp_order_data[f.user])))
            /\ last' = Show(f.user, "form3")
    /\ UNCHANGED <<temp_order_data, origin>>

\* The events of a Step-3 handler, in the order they happened.
Did(f, e) == \E i \in 1..Len(f.ev) : f.ev[i] = e

\* OrderFormStep3.on_submit up to its first await: merge the three steps' data
\* and render the summary text, which reads SummaryKeys from merged_data.
Step3Submit(m) ==
    LET f == modals[m] IN
    /\ f.kind = 3 /\ f.pc = "open"
    /\ \E v \in Values :
         LET merged_data == MergedData(f.step1_data, f.step2_data,
                                       FormData(Step3Keys, v))
         IN IF SummaryKeys \subseteq DOMAIN merged_data
            THEN /\ modals' = SetModal(m, [f EXCEPT !.merged_data = merged_data,
                                                    !.pc = "summary"])
                 /\ last' = Show(f.user, "pending")
            ELSE /\ modals' = SetModal(m, [f EXCEPT !.merged_data = merged_data,
                                                    !.pc = "failed",
                                                    !.ev = <<"KeyError">>])
                 /\ last' = Show(f.user, "KeyError")
    /\ UNCHANGED <<temp_order_data, origin>>

\* await interaction.response.send_message(summary) returns: the summary is in
\* the channel, and the handler calls send_email_func.
SummarySent(m) ==
    LET f == modals[m] IN
    /\ f.kind = 3 /\ f.pc = "summary"
    /\ modals' = SetModal(m, [f EXCEPT !.pc = "send",
                                       !.ev = f.ev \o <<"summary", "send">>])
    /\ last' = Show(f.user, "summary")
    /\ UNCHANGED <<temp_order_data, origin>>

\* await interaction.response.send_message(summary) raises (the platform
\* refuses or loses the response): the exception leaves on_submit.
SummaryRaises(m) ==
    LET f == modals[m] IN
    /\ f.kind = 3 /\ f.pc = "summary"
    /\ modals' = SetModal(m, [f EXCEPT !.pc = "failed",
                                       !.ev = f.ev \o <<"summary_raised">>])
    /\ last' = Show(f.user, "HTTPException")
    /\ UNCHANGED <<temp_order_data, origin>>

\* A cleanup that empties the whole store.
Step3CleanupClearsAll(store, u) == [x \in {} |-> EmptyDict]

\* try: del self.bot_instance.temp_order_data[self.user_id]
\* except KeyError: print(...)
Step3Cleanup(store, u) == IF u \in DOMAIN store THEN DictDel(store, u) ELSE store

\* A cleanup whose delete of an absent record makes the handler fail.
SendReturnsDeleteRaises(m) ==
    LET f == modals[m] IN
    /\ f.kind = 3 /\ f.pc = "send"
    /\ temp_order_data' = Step3Cleanup(temp_order_data, f.user)
    /\ origin' = Step3Cleanup(origin, f.user)
    /\ modals' = SetModal(m, [f EXCEPT
           !.pc = IF HasSession(f.user) THEN "done" ELSE "failed",
           !.ev = f.ev \o <<"send_returned",
                            IF HasSession(f.user) THEN "deleted" ELSE "KeyError">>])
    /\ UNCHANGED last

\* await self.send_email_func(...) returns: the handler deletes the record.
SendReturns(m) ==
    LET f == modals[m] IN
    /\ f.kind = 3 /\ f.pc = "send"
    /\ temp_order_data' = Step3Cleanup(temp_order_data, f.user)
    /\ origin' = Step3Cleanup(origin, f.user)
    /\ modals' = SetModal(m, [f EXCEPT
           !.pc = "done",
           !.ev = f.ev \o <<"send_returned",
                            IF HasSession(f.user) THEN "deleted" ELSE "delete_absent">>])
    /\ UNCHANGED last

\* await self.send_email_func(...) raises (EmailService.send_single_email
\* re-raises the transport's error): the exception leaves on_submit before the
\* delete.
SendRaises(m) ==
    LET f == modals[m] IN
    /\ f.kind = 3 /\ f.pc = "send"
    /\ modals' = SetModal(m, [f EXCEPT !.pc = "failed",
                                       !.ev = f.ev \o <<"send_raised">>])
    /\ UNCHANGED <<temp_order_data, origin, last>>


\* ------------------------------------------------------------ EmailService
\* Concurrent callers of one EmailService.
Callers == {"c1", "c2"}

\* aiosmtplib.SMTP objects created in one run.
MaxTransports == 3

\* max_retries = 1 # Number of retries if disconnected
max_retries == 1

\* self.client and self.client.is_connected
IsConnected(t) == t # 0 /\ transports[t].state = "open"

Idle == [pc |-> "idle", op |-> "none", via |-> "none", attempt |-> 0, tx |-> 0,
         res |-> "none", err |-> "none", hist |-> <<>>]

MailInit ==
    /\ client = 0
    /\ transports = <<>>
    /\ lock = <<>>
    /\ callers = [c \in Callers |-> Idle]

SetCaller(c, r) == [callers EXCEPT ![c] = r]

\* The operation returns to its caller.
Returned(r) ==
    [r EXCEPT !.pc = "idle", !.res = "returned", !.hist = Append(r.hist, "returned")]

\* The operation ends with an exception.
Raised(r, err) ==
    [r EXCEPT !.pc = "idle", !.res = "raised", !.err = err,
              !.hist = Append(r.hist, "raised")]

\* await self.client.sendmail(...), with self.client read when the call is made.
Transmit(r, t, attempt) ==
    [r EXCEPT !.pc = "sendmail", !.tx = t, !.attempt = attempt,
              !.hist = Append(r.hist, "tx")]

\* Where connect()'s caller goes on when connect() returns; cl is self.client
\* then.  "first": line 79, followed by the check of line 81 and the first
\* pass of the loop.  "retry": line 109, followed by the next pass of the loop,
\* whose self.client.sendmail fails on None with an AttributeError that the
\* generic handler re-raises.
AfterConnectReturns(r, cl) ==
    CASE r.via = "first" ->
           IF cl = 0 THEN Raised(r, "no_connection") ELSE Transmit(r, cl, 0)
      [] r.via = "retry" ->
           LET q == [r EXCEPT !.hist = Append(r.hist, "reconnect_ok")]
           IN IF cl = 0 THEN Raised(q, "generic") ELSE Transmit(q, cl, r.attempt + 1)
      [] OTHER -> Returned(r)

\* Where connect()'s caller goes on when connect() raises: the exception
\* leaves connect() and send (line 79), or ends the loop (line 112).
AfterConnectRaises(r) ==
    CASE r.via = "retry" ->
           Raised([r EXCEPT !.hist = Append(r.hist, "reconnect_failed")],
                  "after_retries")
      [] OTHER -> Raised(r, "connect_error")

\* A connect() that opens a new transport even when one is connected.
ConnectBodyAlwaysOpens(c, r, lk, cl) ==
    /\ Len(transports) < MaxTransports
    /\ transports' = Append(transports, [state |-> "new", auth |-> FALSE])
    /\ client' = Len(transports) + 1
    /\ lock' = lk
    /\ callers' = SetCaller(c, [r EXCEPT !.pc = "connecting",
                                         !.tx = Len(transports) + 1])

\* The body of connect() once c holds the lock (lk: the lock then; cl:
\* self.client then): a no-op when connected, else a new SMTP object whose
\* connect() is awaited.
ConnectBody(c, r, lk, cl) ==
    IF IsConnected(cl)
    THEN /\ lock' = Tail(lk)
         /\ callers' = SetCaller(c, AfterConnectReturns(r, cl))
         /\ client' = cl
         /\ UNCHANGED transports
    ELSE /\ Len(transports) < MaxTransports
         /\ transports' = Append(transports, [state |-> "new", auth |-> FALSE])
         /\ client' = Len(transports) + 1
         /\ lock' = lk
         /\ callers' = SetCaller(c, [r EXCEPT !.pc = "connecting",
                                              !.tx = Len(transports) + 1])

\* The body of close() once c holds the lock.
CloseBody(c, r, lk, cl) ==
    IF IsConnected(cl)
    THEN /\ lock' = lk
         /\ callers' = SetCaller(c, [r EXCEPT !.pc = "quit", !.tx = cl])
         /\ UNCHANGED <<client, transports>>
    ELSE /\ lock' = Tail(lk)
         /\ callers' = SetCaller(c, Returned(r))
         /\ UNCHANGED <<client, transports>>

\* async with self._lock: enter at once when the lock is free and nobody
\* waits, else queue behind the waiters (asyncio.Lock wakes them in order).
WithLock(c, r, cl) ==
    IF lock = <<>>
    THEN IF r.via = "close"
         THEN CloseBody(c, r, <<c>>, cl)
         ELSE ConnectBody(c, r, <<c>>, cl)
    ELSE /\ lock' = Append(lock, c)
         /\ callers' = SetCaller(c, [r EXCEPT !.pc = "lock_wait"])
         /\ client' = cl
         /\ UNCHANGED transports

\* The waiter at the head of the queue gets the lock.
LockGranted(c) ==
    /\ callers[c].pc = "lock_wait"
    /\ lock # <<>> /\ Head(lock) = c
    /\ IF callers[c].via = "close"
       THEN CloseBody(c, callers[c], lock, client)
       ELSE ConnectBody(c, callers[c], lock, client)

\* connect() called by the bot itself.
ConnectStart(c) ==
    /\ callers[c].pc = "idle"
    /\ WithLock(c, [Idle EXCEPT !.op = "connect", !.via = "direct"], client)

\* close() called by the bot itself.
CloseStart(c) ==
    /\ callers[c].pc = "idle"
    /\ WithLock(c, [Idle EXCEPT !.op = "close", !.via = "close"], client)

\* send_single_email up to its first await: connect() when not connected,
\* else the first transmission.
SendStart(c) ==
    /\ callers[c].pc = "idle"
    /\ IF IsConnected(client)
       THEN /\ callers' = SetCaller(c, Transmit([Idle EXCEPT !.op = "send"], client, 0))
            /\ UNCHANGED <<client, transports, lock>>
       ELSE WithLock(c, [Idle EXCEPT !.op = "send", !.via = "first"], client)


SetTransport(t, state, auth) ==
    [transports EXCEPT ![t] = [state |-> state, auth |-> auth]]

\* A failure handling of connect() that keeps the client it created.
ConnectFailsKeepsClient(c) ==
    /\ client' = client
    /\ lock' = Tail(lock)
    /\ callers' = SetCaller(c, AfterConnectRaises(callers[c]))

\* except Exception in connect(): self.client = None, then raise; the lock is
\* released on the way out.
ConnectFails(c) ==
    /\ client' = 0
    /\ lock' = Tail(lock)
    /\ callers' = SetCaller(c, AfterConnectRaises(callers[c]))

\* await self.client.connect(...) returns: the transport is open.  The next
\* line reads self.client again for login: None there (a sender's disconnect
\* handling reset it meanwhile) is an AttributeError, handled as a failure.
TransportConnectOk(c) ==
    LET r == callers[c] IN
    /\ r.pc = "connecting"
    /\ transports' = SetTransport(r.tx, "open", FALSE)
    /\ IF client = 0
       THEN ConnectFails(c)
       ELSE /\ callers' = SetCaller(c, [r EXCEPT !.pc = "login"])
            /\ UNCHANGED <<client, lock>>

\* await self.client.connect(...) raises: no transport was opened.
TransportConnectFails(c) ==
    LET r == callers[c] IN
    /\ r.pc = "connecting"
    /\ transports' = SetTransport(r.tx, "closed", FALSE)
    /\ ConnectFails(c)

\* await self.client.login(...) returns: connect() returns to its caller.
LoginOk(c) ==
    LET r == callers[c] IN
    /\ r.pc = "login"
    /\ transports[r.tx].state = "open"
    /\ transports' = SetTransport(r.tx, "open", TRUE)
    /\ lock' = Tail(lock)
    /\ callers' = SetCaller(c, AfterConnectReturns(r, client))
    /\ UNCHANGED client

\* await self.client.login(...) raises (the server refuses the credentials,
\* or has dropped the connection): the transport is left as it is.
LoginFails(c) ==
    LET r == callers[c] IN
    /\ r.pc = "login"
    /\ ConnectFails(c)
    /\ UNCHANGED transports

\* await self.client.quit() returns: the transport is closed, the client
\* dropped.
QuitOk(c) ==
    LET r == callers[c] IN
    /\ r.pc = "quit"
    /\ transports[r.tx].state = "open"
    /\ transports' = SetTransport(r.tx, "closed", FALSE)
    /\ client' = 0
    /\ lock' = Tail(lock)
    /\ callers' = SetCaller(c, Returned(r))

\* A close() that keeps the lock when quit() raises.
QuitFailsKeepsLock(c) ==
    LET r == callers[c] IN
    /\ r.pc = "quit"
    /\ lock' = lock
    /\ callers' = SetCaller(c, Raised(r, "quit_error"))
    /\ UNCHANGED <<client, transports>>

\* await self.client.quit() raises: the exception leaves close() before
\* self.client = None.
QuitFails(c) ==
    LET r == callers[c] IN
    /\ r.pc = "quit"
    /\ lock' = Tail(lock)
    /\ callers' = SetCaller(c, Raised(r, "quit_error"))
    /\ UNCHANGED <<client, transports>>

\* await self.client.sendmail(...) returns.
TransmitOk(c) ==
    LET r == callers[c] IN
    /\ r.pc = "sendmail"
    /\ transports[r.tx].state = "open" /\ transports[r.tx].auth
    /\ callers' = SetCaller(c, Returned([r EXCEPT !.hist = Append(r.hist, "ok")]))
    /\ UNCHANGED <<client, transports, lock>>

\* A send that answers any SMTP error like a disconnection: reconnect, then
\* transmit again.
TransmitErrorRetries(c) ==
    LET r == callers[c]
        q == [r EXCEPT !.hist = Append(r.hist, "error")]
    IN
    /\ r.pc = "sendmail"
    /\ transports[r.tx].state = "open"
    /\ IF r.attempt < max_retries
       THEN WithLock(c, [q EXCEPT !.via = "retry",
                                  !.hist = Append(q.hist, "reconnect")], 0)
       ELSE /\ client' = 0
            /\ callers' = SetCaller(c, Raised(q, "after_retries"))
            /\ UNCHANGED <<transports, lock>>

\* await self.client.sendmail(...) raises an SMTP error other than a
\* disconnection (recipient or sender refused, data error, ...): re-raised.
TransmitError(c) ==
    LET r == callers[c] IN
    /\ r.pc = "sendmail"
    /\ transports[r.tx].state = "open"
    /\ callers' = SetCaller(c,
           Raised([r EXCEPT !.hist = Append(r.hist, "error")], "smtp_error"))
    /\ UNCHANGED <<client, transports, lock>>

\* A retry loop that reconnects and retransmits after every disconnection.
RetryAllowedAlways(attempt) == TRUE

\* if attempt < max_retries
RetryAllowed(attempt) == attempt < max_retries

\* await self.client.sendmail(...) raises SMTPServerDisconnected:
\* self.client = None, then connect() again while a retry is left.
TransmitDisconnected(c) ==
    LET r == callers[c]
        q == [r EXCEPT !.hist = Append(r.hist, "disc")]
    IN
    /\ r.pc = "sendmail"
    /\ transports[r.tx].state = "closed"
    /\ IF RetryAllowed(r.attempt)
       THEN WithLock(c, [q EXCEPT !.via = "retry",
                                  !.hist = Append(q.hist, "reconnect")], 0)
       ELSE /\ client' = 0
            /\ callers' = SetCaller(c, Raised(q, "after_retries"))
            /\ UNCHANGED <<transports, lock>>

\* The mail server, or the network, drops an open connection.
ServerDrops(t) ==
    /\ transports[t].state = "open"
    /\ transports' = SetTransport(t, "closed", FALSE)
    /\ UNCHANGED <<client, lock, callers>>


\* ------------------------------------------------------------------- merge
\* The dictionaries the merge is tried on: every dictionary over two keys.
MergeKeys == {"product_name", "notes"}

Dicts == UNION {[ks -> Values] : ks \in SUBSET MergeKeys}

MergeIdle ==
    /\ merge_in = <<EmptyDict, EmptyDict, EmptyDict>>
    /\ merge_out = [done |-> FALSE, data |-> EmptyDict]

MergeInit ==
    /\ merge_in \in Dicts \X Dicts \X Dicts
    /\ merge_out = [done |-> FALSE, data |-> EmptyDict]

\* merged_data = {**self.step1_data, **self.step2_data, **final_step_data}
ApplyMerge ==
    /\ ~merge_out.done
    /\ merge_out' = [done |-> TRUE,
                     data |-> MergedData(merge_in[1], merge_in[2], merge_in[3])]
    /\ UNCHANGED merge_in

\* ---------------------------------------------------------- pure functions
\* The strings is_valid_email is tried on: every string of at most
\* MaxEmailLen characters over a letter, the separators, a character of the
\* local part only, one of no class, and the newline.
MaxEmailLen == 6

EmailChars == {"a", "@", ".", "-", "_", "!", "\n"}

Strings(chars, n) == UNION {[1..k -> chars] : k \in 0..n}

EmailIdle ==
    /\ email_in = <<>>
    /\ email_out = [done |-> FALSE, valid |-> FALSE]

EmailInit ==
    /\ email_in \in Strings(EmailChars, MaxEmailLen)
    /\ email_out = [done |-> FALSE, valid |-> FALSE]

\* if not is_valid_email(email)
ApplyValidation ==
    /\ ~email_out.done
    /\ email_out' = [done |-> TRUE, valid |-> is_valid_email(email_in)]
    /\ UNCHANGED email_in

\* s[i:].startswith(old)
StartsWith(s, i, old) ==
    /\ i + Len(old) - 1 <= Len(s)
    /\ \A k \in 1..Len(old) : s[i + k - 1] = old[k]

\* str.replace(old, new) from position i on: the occurrences of old, found
\* from the left and not overlapping, become new.
RECURSIVE ReplaceFrom(_, _, _, _)
ReplaceFrom(s, i, old, new) ==
    IF i > Len(s) THEN <<>>
    ELSE IF StartsWith(s, i, old)
         THEN new \o ReplaceFrom(s, i + Len(old), old, new)
         ELSE <<s[i]>> \o ReplaceFrom(s, i + 1, old, new)

str_replace(s, old, new) == ReplaceFrom(s, 1, old, new)

\* f"{{{{{key}}}}}": the key between two pairs of braces.  A key is one
\* character of the model's strings.
Placeholder(key) == <<"{", "{", key, "}", "}">>

\* The keys of email_data in the order the dictionary yields them (the order
\* the merge inserted them in: step 1 before step 3).
KeyOrder == <<"product_name", "notes">>

\* for key, value in email_data.items():
\*     html_body = html_body.replace(f"{{{{{key}}}}}", str(value))
\* from the i-th key on.
RECURSIVE ReplaceKeys(_, _, _)
ReplaceKeys(html_body, email_data, i) ==
    IF i > Len(KeyOrder) THEN html_body
    ELSE LET key == KeyOrder[i] IN
         ReplaceKeys(IF key \in DOMAIN email_data
                     THEN str_replace(html_body, Placeholder(key), email_data[key])
                     ELSE html_body,
                     email_data, i + 1)

\* "<p>Error: Email template not found.</p>"
DefaultBody == <<"e">>

\* email_template_data.get("html_body", "<p>Error: ...</p>")
GetHtmlBody(email_template_data) ==
    IF "html_body" \in DOMAIN email_template_data
    THEN email_template_data["html_body"]
    ELSE DefaultBody

\* The html body send_single_email attaches to the message.
RenderBody(email_template_data, email_data) ==
    ReplaceKeys(GetHtmlBody(email_template_data), email_data, 1)

\* The templates the rendering is tried on: up to MaxPieces pieces, each a
\* placeholder of a key, a placeholder of no key, a letter or a lone brace.
MaxPieces == 3

Pieces == {Placeholder("product_name"), Placeholder("notes"),
           Placeholder("color"), <<"x">>, <<"{">>, <<"}">>}

RECURSIVE Flatten(_)
Flatten(ps) == IF ps = <<>> THEN <<>> ELSE Head(ps) \o Flatten(Tail(ps))

Templates ==
    {[html_body |-> Flatten(ps)] : ps \in Strings(Pieces, MaxPieces)}
        \cup {EmptyDict}

\* The values typed into the fields: a letter, nothing, or the text of a
\* placeholder.
BodyValues == {<<"x">>, <<>>, Placeholder("product_name"), Placeholder("notes")}

BodyData == UNION {[ks -> BodyValues] : ks \in SUBSET {"product_name", "notes"}}

BodyIdle ==
    /\ body_in = [template |-> EmptyDict, data |-> EmptyDict]
    /\ body_out = [done |-> FALSE, body |-> <<>>]

BodyInit ==
    /\ body_in \in [template : Templates, data : BodyData]
    /\ body_out = [done |-> FALSE, body |-> <<>>]

ApplyRender ==
    /\ ~body_out.done
    /\ body_out' = [done |-> TRUE,
                    body |-> RenderBody(body_in.template, body_in.data)]
    /\ UNCHANGED body_in

FunIdle == EmailIdle /\ BodyIdle

\* ------------------------------------------------------- the mail server
\* The mail server starts as one that may refuse and drop connections; no
\* send has begun on a healthy server.
ServerInit == server = [healthy |-> FALSE, later |-> {}]

\* A send of caller c has ended with an exception.
SendFailed(c) ==
    /\ callers[c].pc = "idle"
    /\ callers[c].op = "send"
    /\ callers[c].res = "raised"

\* After a failed send, and with no call in progress, the server becomes
\* reachable and stays so.
ServerHeals ==
    /\ ~server.healthy
    /\ \E c \in Callers : SendFailed(c)
    /\ \A c \in Callers : callers[c].pc = "idle"
    /\ server' = [server EXCEPT !.healthy = TRUE]
    /\ UNCHANGED mailVars

\* send_single_email called while the server is healthy.
LaterSendStart(c) ==
    /\ server.healthy
    /\ SendStart(c)
    /\ server' = [server EXCEPT !.later = @ \cup {c}]

\* The answers of a healthy server to caller c: it accepts connections,
\* credentials and messages, and refuses only the message of a session that
\* has not logged in.
HealthyServerAnswers(c) ==
    /\ server.healthy
    /\ \/ TransportConnectOk(c)
       \/ LoginOk(c)
       \/ TransmitOk(c)
       \/ TransmitError(c) /\ ~transports[callers[c].tx].auth
    /\ UNCHANGED server

\* ------------------------------------------------- main.py, the one-file bot
\* Forms created in one run of main.py.
MaxMonoForms == 4

MonoIds == 1..Len(mono_forms)

\* bot.temp_order_data = {}; email_template = load_email_template(): any JSON
\* object, with or without "html_body".
MonoIdle ==
    /\ mono_store = EmptyDict
    /\ mono_owner = "none"
    /\ mono_forms = <<>>
    /\ mono_last = Show("none", "none")
    /\ email_template = {"subject", "html_body"}

MonoInit ==
    /\ mono_store = EmptyDict
    /\ mono_owner = "none"
    /\ mono_forms = <<>>
    /\ mono_last = Show("none", "none")
    /\ email_template \in {{"subject", "html_body"}, {"subject"}}

NoCall == [outcome |-> "none", value |-> "none", sent |-> FALSE]

\* main.py send_email: email_template["html_body"] outside the try; the SMTP
\* exchange inside it: return True after it, raise EmailError on any
\* exception of it.
send_email(template, smtp_ok) ==
    IF "html_body" \notin template
    THEN [outcome |-> "raised", value |-> "KeyError", sent |-> FALSE]
    ELSE IF smtp_ok
         THEN [outcome |-> "returned", value |-> "True", sent |-> TRUE]
         ELSE [outcome |-> "raised", value |-> "EmailError", sent |-> FALSE]

NewMonoForm(kind, u, email, data) ==
    [kind |-> kind, user |-> u, user_email |-> email, data |-> data,
     pc |-> "open", call |-> NoCall]

SetMonoForm(m, f) == [mono_forms EXCEPT ![m] = f]

\* main.py order_form_command: validate, then send_modal(OrderFormStep1(email)).
mono_order_form_command(u, email) ==
    /\ Len(mono_forms) < MaxMonoForms
    /\ IF is_valid_email(email)
       THEN /\ mono_forms' = Append(mono_forms, NewMonoForm(1, u, email, EmptyDict))
            /\ mono_last' = Show(u, "form1")
       ELSE /\ mono_last' = Show(u, "invalid_email")
            /\ UNCHANGED mono_forms
    /\ UNCHANGED <<mono_store, mono_owner, email_template>>

\* main.py OrderFormStep1.on_submit: interaction.client.temp_order_data is
\* assigned a new record, whoever submits.
MonoStep1Submit(m) ==
    LET f == mono_forms[m] IN
    /\ f.kind = 1 /\ f.pc = "open"
    /\ \E v \in Values :
         /\ mono_store' = [email |-> f.user_email,
                           step1_data |-> FormData(Step1Keys, v)]
         /\ mono_forms' = SetMonoForm(m, [f EXCEPT !.pc = "submitted",
                                             !.data = FormData(Step1Keys, v)])
    /\ mono_owner' = f.user
    /\ mono_last' = Show(f.user, "continue2")
    /\ UNCHANGED email_template

\* main.py button_callback of Step 1: OrderFormStep2(self.user_email, user_data).
MonoContinueStep2(m) ==
    LET f == mono_forms[m] IN
    /\ f.kind = 1 /\ f.pc = "submitted"
    /\ Len(mono_forms) < MaxMonoForms
    /\ mono_forms' = Append(mono_forms, NewMonoForm(2, f.user, f.user_email, f.data))
    /\ mono_last' = Show(f.user, "form2")
    /\ UNCHANGED <<mono_store, mono_owner, email_template>>

\* main.py OrderFormStep2.on_submit: temp_data = {**step1_data, **step2_data};
\* temp_order_data.update({'step2_data': step2_data}) on the record that is
\* there.
MonoStep2Submit(m) ==
    LET f == mono_forms[m] IN
    /\ f.kind = 2 /\ f.pc = "open"
    /\ \E v \in Values :
         /\ mono_store' = DictSet(mono_store, "step2_data", FormData(Step2Keys, v))
         /\ mono_forms' = SetMonoForm(m, [f EXCEPT !.pc = "submitted",
                              !.data = DictUpdate(f.data, FormData(Step2Keys, v))])
    /\ mono_last' = Show(f.user, "continue3")
    /\ UNCHANGED <<mono_owner, email_template>>

\* main.py button_callback of Step 2: OrderFormStep3(self.user_email, temp_data).
MonoContinueFinal(m) ==
    LET f == mono_forms[m] IN
    /\ f.kind = 2 /\ f.pc = "submitted"
    /\ Len(mono_forms) < MaxMonoForms
    /\ mono_forms' = Append(mono_forms, NewMonoForm(3, f.user, f.user_email, f.data))
    /\ mono_last' = Show(f.user, "form3")
    /\ UNCHANGED <<mono_store, mono_owner, email_template>>

\* main.py OrderFormStep3.on_submit up to its await: merged_data, then the
\* summary is handed to send_message.
MonoStep3Submit(m) ==
    LET f == mono_forms[m] IN
    /\ f.kind = 3 /\ f.pc = "open"
    /\ \E v \in Values :
         mono_forms' = SetMonoForm(m, [f EXCEPT !.pc = "summary",
                           !.data = DictUpdate(f.data, FormData(Step3Keys, v))])
    /\ mono_last' = Show(f.user, "pending")
    /\ UNCHANGED <<mono_store, mono_owner, email_template>>

\* send_message returns; send_email(self.user_email, merged_data) runs to its
\* end at once (it is synchronous): the handler ends with it, or with its
\* exception.
MonoSummarySent(m) ==
    LET f == mono_forms[m] IN
    /\ f.kind = 3 /\ f.pc = "summary"
    /\ \E smtp_ok \in BOOLEAN :
         LET call == send_email(email_template, smtp_ok) IN
         /\ mono_forms' = SetMonoForm(m, [f EXCEPT
                !.pc = IF call.outcome = "returned" THEN "done" ELSE "failed",
                !.call = call])
         /\ mono_last' = Show(f.user, IF call.outcome = "returned"
                                      THEN "summary" ELSE call.value)
    /\ UNCHANGED <<mono_store, mono_owner, email_template>>

\* send_message raises: the handler ends before send_email.
MonoSummaryRaises(m) ==
    LET f == mono_forms[m] IN
    /\ f.kind = 3 /\ f.pc = "summary"
    /\ mono_forms' = SetMonoForm(m, [f EXCEPT !.pc = "failed"])
    /\ mono_last' = Show(f.user, "HTTPException")
    /\ UNCHANGED <<mono_store, mono_owner, email_template>>

\* --------------------------------------- email_utils.py, the async send_email
\* The exception classes of aiosmtplib and of Python that the awaits of the
\* transport block raise, each with its base class.
BaseClass(cls) ==
    CASE cls \in {"SMTPAuthenticationError", "SMTPRecipientRefused",
                  "SMTPSenderRefused", "SMTPDataError", "SMTPHeloError"}
           -> "SMTPResponseException"
      [] cls \in {"SMTPResponseException", "SMTPRecipientsRefused",
                  "SMTPServerDisconnected", "SMTPConnectError", "SMTPTimeoutError"}
           -> "SMTPException"
      [] cls \in {"SMTPException", "OSError", "AttributeError"} -> "Exception"
      [] OTHER -> "BaseException"

\* isinstance(error, cls)
RECURSIVE IsInstance(_, _)
IsInstance(error, cls) ==
    \/ error = cls
    \/ error # "BaseException" /\ IsInstance(BaseClass(error), cls)

\* The except clauses of send_email without the last one.
ExceptClausesSmtpOnly ==
    <<"SMTPAuthenticationError", "SMTPRecipientsRefused", "SMTPRecipientRefused",
      "SMTPSenderRefused", "SMTPDataError", "SMTPServerDisconnected",
      "SMTPHeloError", "SMTPException">>

\* The except clauses of send_email, in their order; each one prints.
ExceptClauses ==
    <<"SMTPAuthenticationError", "SMTPRecipientsRefused", "SMTPRecipientRefused",
      "SMTPSenderRefused", "SMTPDataError", "SMTPServerDisconnected",
      "SMTPHeloError", "SMTPException", "Exception">>

NoFault == [stage |-> "none", error |-> "none"]

\* What can fail inside the try block: reading smtp_config, entering
\* async with aiosmtplib.SMTP(...) (the connection), login, sendmail.
TransportFaults ==
    {[stage |-> "config", error |-> "AttributeError"],
     [stage |-> "connect", error |-> "SMTPConnectError"],
     [stage |-> "connect", error |-> "SMTPTimeoutError"],
     [stage |-> "connect", error |-> "OSError"],
     [stage |-> "login", error |-> "SMTPAuthenticationError"],
     [stage |-> "login", error |-> "SMTPHeloError"],
     [stage |-> "login", error |-> "SMTPServerDisconnected"],
     [stage |-> "sendmail", error |-> "SMTPRecipientsRefused"],
     [stage |-> "sendmail", error |-> "SMTPRecipientRefused"],
     [stage |-> "sendmail", error |-> "SMTPSenderRefused"],
     [stage |-> "sendmail", error |-> "SMTPDataError"],
     [stage |-> "sendmail", error |-> "SMTPServerDisconnected"]}

\* The first except clause that takes the error, "none" when none does.
HandledBy(error) ==
    LET takes == {i \in 1..Len(ExceptClauses) : IsInstance(error, ExceptClauses[i])}
    IN IF takes = {} THEN "none"
       ELSE ExceptClauses[CHOOSE i \in takes : \A j \in takes : i <= j]

\* email_utils.send_email (imported as email_util_send_email): the transport
\* block under try; every handler prints and the function ends, returning None.
email_util_send_email(fault) ==
    IF fault = NoFault
    THEN [outcome |-> "returned", value |-> "None", sent |-> TRUE, handler |-> "none"]
    ELSE IF HandledBy(fault.error) # "none"
         THEN [outcome |-> "returned", value |-> "None", sent |-> FALSE,
               handler |-> HandledBy(fault.error)]
         ELSE [outcome |-> "raised", value |-> fault.error, sent |-> FALSE,
               handler |-> "none"]

AsendIdle ==
    asend = [form |-> 0, fault |-> NoFault,
             call |-> [outcome |-> "none", value |-> "none", sent |-> FALSE,
                       handler |-> "none"]]

\* await self.send_email_func(...) with send_email_func = email_utils.send_email:
\* the call ends, and OrderFormStep3.on_submit goes on from there.
AsyncSendEnds(m) ==
    /\ m \in ModalIds
    /\ modals[m].kind = 3 /\ modals[m].pc = "send"
    /\ \E fault \in TransportFaults \cup {NoFault} :
         LET call == email_util_send_email(fault) IN
         /\ asend' = [form |-> m, fault |-> fault, call |-> call]
         /\ IF call.outcome = "returned" THEN SendReturns(m) ELSE SendRaises(m)

\* ------------------------------------- bot/main.py, EnhancedReceiptBot
\* time.time() at the start of the run, in seconds.
Epoch == 1000000

\* The instants the clock is read at.
Times == {Epoch + d : d \in {0, 1, 60, 61, 300, 3600, 3601}}

\* The limit the callers of is_rate_limited pass.
Limit == 2

\* Allowed calls of is_rate_limited in one run.
MaxAllowed == 4

\* window: int = 60
window == 60

\* current_time - data.get('timestamp', 0) > 3600
order_ttl == 3600

\* current_time - v < 300
bucket_ttl == 300

\* The callers of is_rate_limited: user 1 with command "2:a", user 12 with
\* command "a".
RateCallers ==
    {[user_id |-> <<"1">>, command |-> <<"2", ":", "a">>],
     [user_id |-> <<"1", "2">>, command |-> <<"a">>]}

NoOne == [user_id |-> <<>>, command |-> <<>>]

\* key = f"{user_id}:{command}"
RateKey(user_id, command) == user_id \o <<":">> \o command

\* The entries of order_data: with or without 'timestamp'.
OrderEntries ==
    {[data |-> "x"], [data |-> "x", timestamp |-> Epoch],
     [data |-> "x", timestamp |-> Epoch + 1]}

OrderStores == UNION {[us -> OrderEntries] : us \in SUBSET Users}

MaintIdle ==
    /\ order_data = EmptyDict
    /\ rate_limit_buckets = EmptyDict
    /\ clock = Epoch
    /\ rate_hist = [who \in RateCallers |-> <<>>]
    /\ maint_last = [op |-> "none", who |-> NoOne, result |-> FALSE]

\* self.order_data = {} is filled by the bot's users; self.rate_limit_buckets = {}
MaintInit ==
    /\ order_data \in OrderStores
    /\ rate_limit_buckets = EmptyDict
    /\ clock = Epoch
    /\ rate_hist = [who \in RateCallers |-> <<>>]
    /\ maint_last = [op |-> "none", who |-> NoOne, result |-> FALSE]

LateIdle == AsendIdle /\ MaintIdle

\* Time passes.
Tick ==
    /\ \E t \in Times : t > clock /\ clock' = t
    /\ maint_last' = [op |-> "time", who |-> NoOne, result |-> FALSE]
    /\ UNCHANGED <<order_data, rate_limit_buckets, rate_hist>>

\* data.get('timestamp', 0)
GetTimestamp(data) == IF "timestamp" \in DOMAIN data THEN data["timestamp"] ELSE 0

\* [timestamp for timestamp in bucket if current_time - timestamp < window]
RECURSIVE RecentOnly(_, _, _)
RecentOnly(bucket, current_time, w) ==
    IF bucket = <<>> THEN <<>>
    ELSE IF current_time - Head(bucket) < w
         THEN <<Head(bucket)>> \o RecentOnly(Tail(bucket), current_time, w)
         ELSE RecentOnly(Tail(bucket), current_time, w)

\* An is_rate_limited that records the refused calls too.
is_rate_limited_RecordsAll(buckets, user_id, command, current_time, limit, w) ==
    LET key == RateKey(user_id, command)
        bucket == IF key \in DOMAIN buckets THEN buckets[key] ELSE <<>>
        kept == RecentOnly(bucket, current_time, w)
    IN [result |-> Len(kept) >= limit,
        buckets |-> DictSet(buckets, key, Append(kept, current_time))]

\* is_rate_limited: create the bucket of the key, drop its old timestamps,
\* return True at the limit, else record the call and return False.
is_rate_limited(buckets, user_id, command, current_time, limit, w) ==
    LET key == RateKey(user_id, command)
        bucket == IF key \in DOMAIN buckets THEN buckets[key] ELSE <<>>
        kept == RecentOnly(bucket, current_time, w)
    IN IF Len(kept) >= limit
       THEN [result |-> TRUE, buckets |-> DictSet(buckets, key, kept)]
       ELSE [result |-> FALSE,
             buckets |-> DictSet(buckets, key, Append(kept, current_time))]

\* A command handler asks is_rate_limited for a caller.
RateCall(who) ==
    LET r == is_rate_limited(rate_limit_buckets, who.user_id, who.command,
                             clock, Limit, window)
        allowed == {<<w, i>> \in RateCallers \X (1..MaxAllowed) :
                       i <= Len(rate_hist[w])}
    IN /\ r.result \/ Cardinality(allowed) < MaxAllowed
       /\ rate_limit_buckets' = r.buckets
       /\ rate_hist' = IF r.result THEN rate_hist
                       ELSE [rate_hist EXCEPT ![who] = Append(@, clock)]
       /\ maint_last' = [op |-> "is_rate_limited", who |-> who, result |-> r.result]
       /\ UNCHANGED <<order_data, clock>>

\* The users whose entry cleanup_task finds expired.
expired_orders(orders, current_time) ==
    {user_id \in DOMAIN orders :
        current_time - GetTimestamp(orders[user_id]) > order_ttl}

\* {k: v for k, v in self.rate_limit_buckets.items() if current_time - v < 300}:
\* every v is the list is_rate_limited stored, and a number minus a list is a
\* TypeError, raised at the first item.
PruneBuckets(buckets, current_time) ==
    IF DOMAIN buckets = {}
    THEN [raised |-> FALSE, buckets |-> buckets]
    ELSE [raised |-> TRUE, buckets |-> buckets]

\* cleanup_task: delete the expired orders, then prune the buckets; an
\* exception is logged by the except clause and ends the run of the task.
cleanup_task ==
    LET pruned == PruneBuckets(rate_limit_buckets, clock) IN
    /\ order_data' = [user_id \in DOMAIN order_data \ expired_orders(order_data, clock)
                        |-> order_data[user_id]]
    /\ rate_limit_buckets' = pruned.buckets
    /\ maint_last' = [op |-> "cleanup_task", who |-> NoOne, result |-> pruned.raised]
    /\ UNCHANGED <<clock, rate_hist>>

\* ---------------------------------------------------------- specifications
Init == FlowInit /\ MailInit /\ MergeIdle /\ FunIdle /\ MonoIdle /\ ServerInit /\ LateIdle

\* The order form: users start flows, submit forms and click continuation
\* buttons; the platform and the mail function answer the pending awaits.
Next ==
    \/ \E u \in Users, email \in Emails :
         order_form_command(u, email) /\ UNCHANGED <<mailVars, mergeVars, funVars, monoVars, server, asend, maintVars>>
    \/ \E m \in ModalIds : Step1Submit(m) /\ UNCHANGED <<mailVars, mergeVars, funVars, monoVars, server, asend, maintVars>>
    \/ \E m \in ModalIds : ContinueStep2(m) /\ UNCHANGED <<mailVars, mergeVars, funVars, monoVars, server, asend, maintVars>>
    \/ \E m \in ModalIds : Step2Submit(m) /\ UNCHANGED <<mailVars, mergeVars, funVars, monoVars, server, asend, maintVars>>
    \/ \E m \in ModalIds : ContinueFinal(m) /\ UNCHANGED <<mailVars, mergeVars, funVars, monoVars, server, asend, maintVars>>
    \/ \E m \in ModalIds : Step3Submit(m) /\ UNCHANGED <<mailVars, mergeVars, funVars, monoVars, server, asend, maintVars>>
    \/ \E m \in ModalIds : SummarySent(m) /\ UNCHANGED <<mailVars, mergeVars, funVars, monoVars, server, asend, maintVars>>
    \/ \E m \in ModalIds : SummaryRaises(m) /\ UNCHANGED <<mailVars, mergeVars, funVars, monoVars, server, asend, maintVars>>
    \/ \E m \in ModalIds : SendReturns(m) /\ UNCHANGED <<mailVars, mergeVars, funVars, monoVars, server, asend, maintVars>>
    \/ \E m \in ModalIds : SendRaises(m) /\ UNCHANGED <<mailVars, mergeVars, funVars, monoVars, server, asend, maintVars>>

Spec == Init /\ [][Next]_vars

\* The mail service under concurrent callers and a server that may drop
\* connections.
MailNext ==
    \/ \E c \in Callers : SendStart(c) /\ UNCHANGED <<flowVars, mergeVars, funVars, monoVars, server, asend, maintVars>>
    \/ \E c \in Callers : ConnectStart(c) /\ UNCHANGED <<flowVars, mergeVars, funVars, monoVars, server, asend, maintVars>>
    \/ \E c \in Callers : CloseStart(c) /\ UNCHANGED <<flowVars, mergeVars, funVars, monoVars, server, asend, maintVars>>
    \/ \E c \in Callers : LockGranted(c) /\ UNCHANGED <<flowVars, mergeVars, funVars, monoVars, server, asend, maintVars>>
    \/ \E c \in Callers : TransportConnectOk(c) /\ UNCHANGED <<flowVars, mergeVars, funVars, monoVars, server, asend, maintVars>>
    \/ \E c \in Callers : TransportConnectFails(c) /\ UNCHANGED <<flowVars, mergeVars, funVars, monoVars, server, asend, maintVars>>
    \/ \E c \in Callers : LoginOk(c) /\ UNCHANGED <<flowVars, mergeVars, funVars, monoVars, server, asend, maintVars>>
    \/ \E c \in Callers : LoginFails(c) /\ UNCHANGED <<flowVars, mergeVars, funVars, monoVars, server, asend, maintVars>>
    \/ \E c \in Callers : QuitOk(c) /\ UNCHANGED <<flowVars, mergeVars, funVars, monoVars, server, asend, maintVars>>
    \/ \E c \in Callers : QuitFails(c) /\ UNCHANGED <<flowVars, mergeVars, funVars, monoVars, server, asend, maintVars>>
    \/ \E c \in Callers : TransmitOk(c) /\ UNCHANGED <<flowVars, mergeVars, funVars, monoVars, server, asend, maintVars>>
    \/ \E c \in Callers : TransmitError(c) /\ UNCHANGED <<flowVars, mergeVars, funVars, monoVars, server, asend, maintVars>>
    \/ \E c \in Callers : TransmitDisconnected(c) /\ UNCHANGED <<flowVars, mergeVars, funVars, monoVars, server, asend, maintVars>>
    \/ \E t \in 1..Len(transports) :
         ServerDrops(t) /\ UNCHANGED <<flowVars, mergeVars, funVars, monoVars, server, asend, maintVars>>

MailSpec == Init /\ [][MailNext]_vars

\* Every awaited transport operation of caller c terminates, one way or the
\* other: connect (line 56), login (61), quit (72), sendmail (100).
TransportOperationEnds(c) ==
    /\ \/ TransportConnectOk(c) \/ TransportConnectFails(c)
       \/ LoginOk(c) \/ LoginFails(c)
       \/ QuitOk(c) \/ QuitFails(c)
       \/ TransmitOk(c) \/ TransmitError(c) \/ TransmitDisconnected(c)
    /\ UNCHANGED <<flowVars, mergeVars, funVars, monoVars, server, asend, maintVars>>

\* asyncio.Lock wakes its first waiter once the lock is released.
WaiterWakes(c) == LockGranted(c) /\ UNCHANGED <<flowVars, mergeVars, funVars, monoVars, server, asend, maintVars>>

\* The mail service when every transport operation terminates and the event
\* loop runs every task that can run.
MailFairSpec ==
    /\ MailSpec
    /\ \A c \in Callers : WF_vars(TransportOperationEnds(c))
    /\ \A c \in Callers : WF_vars(WaiterWakes(c))

\* The mail service before and after the server becomes healthy: from then
\* on sends are called, by any caller at any time.
RecoverNext ==
    \/ ~server.healthy /\ MailNext
    \/ ServerHeals /\ UNCHANGED <<flowVars, mergeVars, funVars, monoVars, asend, maintVars>>
    \/ \E c \in Callers :
         LaterSendStart(c) /\ UNCHANGED <<flowVars, mergeVars, funVars, monoVars, asend, maintVars>>
    \/ \E c \in Callers :
         /\ server.healthy /\ LockGranted(c)
         /\ UNCHANGED <<flowVars, mergeVars, funVars, monoVars, server, asend, maintVars>>
    \/ \E c \in Callers :
         HealthyServerAnswers(c) /\ UNCHANGED <<flowVars, mergeVars, funVars, monoVars, asend, maintVars>>

RecoverSpec == Init /\ [][RecoverNext]_vars

\* The order form of main.py.
MonoNext ==
    \/ \E u \in Users, email \in Emails :
         /\ mono_order_form_command(u, email)
         /\ UNCHANGED <<flowVars, mailVars, mergeVars, funVars, server, asend, maintVars>>
    \/ \E m \in MonoIds :
         MonoStep1Submit(m) /\ UNCHANGED <<flowVars, mailVars, mergeVars, funVars, server, asend, maintVars>>
    \/ \E m \in MonoIds :
         MonoContinueStep2(m) /\ UNCHANGED <<flowVars, mailVars, mergeVars, funVars, server, asend, maintVars>>
    \/ \E m \in MonoIds :
         MonoStep2Submit(m) /\ UNCHANGED <<flowVars, mailVars, mergeVars, funVars, server, asend, maintVars>>
    \/ \E m \in MonoIds :
         MonoContinueFinal(m) /\ UNCHANGED <<flowVars, mailVars, mergeVars, funVars, server, asend, maintVars>>
    \/ \E m \in MonoIds :
         MonoStep3Submit(m) /\ UNCHANGED <<flowVars, mailVars, mergeVars, funVars, server, asend, maintVars>>
    \/ \E m \in MonoIds :
         MonoSummarySent(m) /\ UNCHANGED <<flowVars, mailVars, mergeVars, funVars, server, asend, maintVars>>
    \/ \E m \in MonoIds :
         MonoSummaryRaises(m) /\ UNCHANGED <<flowVars, mailVars, mergeVars, funVars, server, asend, maintVars>>

MonoSpecInit ==
    FlowInit /\ MailInit /\ MergeIdle /\ FunIdle /\ MonoInit /\ ServerInit /\ LateIdle

MonoSpec == MonoSpecInit /\ [][MonoNext]_vars

\* The order form with email_utils.send_email as its send function, as
\* bot_commands.py wires it.
WiredNext ==
    \/ \E u \in Users, email \in Emails :
         /\ order_form_command(u, email)
         /\ UNCHANGED <<mailVars, mergeVars, funVars, monoVars, server, asend, maintVars>>
    \/ \E m \in ModalIds :
         /\ Step1Submit(m)
         /\ UNCHANGED <<mailVars, mergeVars, funVars, monoVars, server, asend, maintVars>>
    \/ \E m \in ModalIds :
         /\ ContinueStep2(m)
         /\ UNCHANGED <<mailVars, mergeVars, funVars, monoVars, server, asend, maintVars>>
    \/ \E m \in ModalIds :
         /\ Step2Submit(m)
         /\ UNCHANGED <<mailVars, mergeVars, funVars, monoVars, server, asend, maintVars>>
    \/ \E m \in ModalIds :
         /\ ContinueFinal(m)
         /\ UNCHANGED <<mailVars, mergeVars, funVars, monoVars, server, asend, maintVars>>
    \/ \E m \in ModalIds :
         /\ Step3Submit(m)
         /\ UNCHANGED <<mailVars, mergeVars, funVars, monoVars, server, asend, maintVars>>
    \/ \E m \in ModalIds :
         /\ SummarySent(m)
         /\ UNCHANGED <<mailVars, mergeVars, funVars, monoVars, server, asend, maintVars>>
    \/ \E m \in ModalIds :
         /\ SummaryRaises(m)
         /\ UNCHANGED <<mailVars, mergeVars, funVars, monoVars, server, asend, maintVars>>
    \/ \E m \in ModalIds :
         /\ AsyncSendEnds(m)
         /\ UNCHANGED <<mailVars, mergeVars, funVars, monoVars, server, maintVars>>

WiredSpec == Init /\ [][WiredNext]_vars

\* The maintenance of EnhancedReceiptBot: the rate limiter, the hourly
\* cleanup, and the clock.
MaintNext ==
    \/ /\ Tick
       /\ UNCHANGED <<flowVars, mailVars, mergeVars, funVars, monoVars, server, asend>>
    \/ \E who \in RateCallers :
         /\ RateCall(who)
         /\ UNCHANGED <<flowVars, mailVars, mergeVars, funVars, monoVars, server, asend>>
    \/ /\ cleanup_task
       /\ UNCHANGED <<flowVars, mailVars, mergeVars, funVars, monoVars, server, asend>>

MaintSpecInit ==
    /\ FlowInit /\ MailInit /\ MergeIdle /\ FunIdle /\ MonoIdle /\ ServerInit
    /\ AsendIdle /\ MaintInit

MaintSpec == MaintSpecInit /\ [][MaintNext]_vars

\* The merge of Step 3 on arbitrary dictionaries.
MergeNext == ApplyMerge /\ UNCHANGED <<flowVars, mailVars, funVars, monoVars, server, asend, maintVars>>

MergeSpecInit ==
    FlowInit /\ MailInit /\ MergeInit /\ FunIdle /\ MonoIdle /\ ServerInit /\ LateIdle

MergeSpec == MergeSpecInit /\ [][MergeNext]_vars

\* is_valid_email on arbitrary strings.
EmailNext ==
    ApplyValidation /\ UNCHANGED <<flowVars, mailVars, mergeVars, body_in, body_out,
                                   monoVars, server, asend, maintVars>>

EmailSpecInit ==
    FlowInit /\ MailInit /\ MergeIdle /\ EmailInit /\ BodyIdle /\ MonoIdle /\ ServerInit /\ LateIdle

EmailSpec == EmailSpecInit /\ [][EmailNext]_vars

\* The body rendering on arbitrary templates and data.
BodyNext ==
    ApplyRender /\ UNCHANGED <<flowVars, mailVars, mergeVars, email_in, email_out,
                               monoVars, server, asend, maintVars>>

BodySpecInit ==
    FlowInit /\ MailInit /\ MergeIdle /\ EmailIdle /\ BodyInit /\ MonoIdle /\ ServerInit /\ LateIdle

BodySpec == BodySpecInit /\ [][BodyNext]_vars


\* ------------------------------------------------------------------ claims
Step3Forms == {m \in ModalIds : modals[m].kind = 3}

\* C1: when the Step-3 handler of a user finishes after the email step,
\* whether the send returned or raised, the store holds no record of that
\* user.
C1_SessionAbsentAfterStep3 ==
    [][\A m \in Step3Forms :
         (modals[m].pc = "send" /\ modals'[m].pc \in {"done", "failed"})
             => modals[m].user \notin DOMAIN temp_order_data']_vars

\* C2: when the Step-3 handler of a user ends because the summary itself
\* failed (it could not be rendered, or the platform refused it), the store
\* holds no record of that user.
C2_SessionAbsentAfterSummaryFailure ==
    [][\A m \in Step3Forms :
         (modals[m].pc \in {"open", "summary"} /\ modals'[m].pc = "failed")
             => modals[m].user \notin DOMAIN temp_order_data']_vars

\* C3: a step handler (opening or submitting Step 2 or Step 3) that runs for a
\* user without a record answers with the restart notice of a
\* SessionNotFoundError, never with a raw fault.
C3_NoSessionGivesRestartNotice ==
    [][\A m \in ModalIds :
         (/\ ~HasSession(modals[m].user)
          /\ \/ ContinueStep2(m)
             \/ Step2Submit(m)
             \/ ContinueFinal(m)
             \/ Step3Submit(m))
             => last' = Show(modals[m].user, "restart_notice")]_vars

\* The Step-3 handlers of flow f that have invoked the email send.
SendsOf(f) == {m \in Step3Forms : modals[m].flow = f /\ Did(modals[m], "send")}

\* C7: for one order session (one flow) the confirmation email send is invoked
\* at most once.
C7_AtMostOneSendPerFlow ==
    \A f \in Flows : Cardinality(SendsOf(f)) <= 1

\* The flows a user started before form m was created.
EarlierFlows(u, m) == {f \in Flows : f < m /\ modals[f].user = u}

Before(f, a, b) ==
    \E i \in 1..Len(f.ev), j \in 1..Len(f.ev) : i < j /\ f.ev[i] = a /\ f.ev[j] = b

\* C10: every Step-3 submit emits the order summary, and emits it before it
\* invokes the email send, whatever the send does later.  A handler counts
\* once it is past the summary step; one whose notification Discord refused
\* is left aside.
C10_SummaryOnEverySubmit ==
    \A m \in Step3Forms :
        LET f == modals[m] IN
        (f.pc \in {"send", "done", "failed"} /\ ~Did(f, "summary_raised"))
            => /\ Did(f, "summary")
               /\ Did(f, "send") => Before(f, "summary", "send")

\* ------------------------------------------------- claims on EmailService
Count(h, e) == Cardinality({i \in 1..Len(h) : h[i] = e})

Happened(r, e) == Count(r.hist, e) > 0

\* A call of send whose first transmission hit a disconnection.
FirstTxDisconnected(r) ==
    /\ r.op = "send"
    /\ Len(r.hist) >= 2
    /\ r.hist[1] = "tx"
    /\ r.hist[2] = "disc"

\* C4: for one call of send whose first transmission hits a disconnection,
\* exactly one reconnect and at most one re-transmission follow (never a third
\* transmission); the call returns when the reconnect and the re-transmission
\* succeed, and when the reconnect fails it raises its delivery error without
\* transmitting again.
C4_OneRetryAfterDisconnect ==
    \A c \in Callers :
        LET r == callers[c] IN
        FirstTxDisconnected(r) =>
            /\ Count(r.hist, "reconnect") = 1
            /\ Count(r.hist, "tx") <= 2
            /\ (Happened(r, "reconnect_ok") /\ Happened(r, "ok"))
                 => (r.res = "returned" /\ Count(r.hist, "tx") = 2)
            /\ Happened(r, "reconnect_failed")
                 => (r.res = "raised" /\ r.err = "after_retries"
                       /\ Count(r.hist, "tx") = 1)

\* A call that was disconnected, reconnected, transmitted again and returned.
C4_Witness ==
    \E c \in Callers :
        callers[c].hist =
            <<"tx", "disc", "reconnect", "reconnect_ok", "tx", "ok", "returned">>

OpenTransports == {t \in 1..Len(transports) : transports[t].state = "open"}

InCall(c, op) == callers[c].op = op /\ callers[c].pc # "idle"

\* C5: while two callers are in concurrent calls of send, at most one
\* transport is opened and not yet closed.
C5_AtMostOneOpenTransport ==
    (\A c \in Callers : InCall(c, "send")) => Cardinality(OpenTransports) <= 1

\* The awaits during which an operation is in progress on the transport.
InProgress == {"connecting", "login", "sendmail", "quit"}

\* C6: connect, close and send exclude each other: at most one caller at a
\* time is inside one of them, the others wait for the lock.
C6_OperationsMutuallyExclusive ==
    Cardinality({c \in Callers : callers[c].pc \in InProgress}) <= 1

\* ---------------------------------------------------- claims on the merge
\* C9: the merged order has as keys exactly the union of the keys of the
\* three steps; on a collision the step-3 value wins over steps 2 and 1, and
\* the step-2 value over step 1.
C9_MergeUnionLastWins ==
    merge_out.done =>
        LET s1 == merge_in[1]
            s2 == merge_in[2]
            s3 == merge_in[3]
            d == merge_out.data
        IN /\ DOMAIN d = (DOMAIN s1) \cup (DOMAIN s2) \cup (DOMAIN s3)
           /\ \A k \in DOMAIN d :
                d[k] = IF k \in DOMAIN s3 THEN s3[k]
                       ELSE IF k \in DOMAIN s2 THEN s2[k]
                       ELSE s1[k]

\* A merge where steps 1 and 2 collide on one key with different values and
\* steps 2 and 3 collide on another.
C9_Witness ==
    /\ merge_out.done
    /\ "notes" \in (DOMAIN merge_in[1]) \cap (DOMAIN merge_in[2])
    /\ "notes" \notin DOMAIN merge_in[3]
    /\ merge_in[1]["notes"] # merge_in[2]["notes"]
    /\ "product_name" \in (DOMAIN merge_in[2]) \cap (DOMAIN merge_in[3])
    /\ merge_in[2]["product_name"] # merge_in[3]["product_name"]

\* ------------------------------------------- claims on the start of a flow
\* C11: when the email send of a Step-3 submit fails, the user is shown a
\* degraded-success notice ("order recorded, confirmation email failed") after
\* the summary, and the handler still completes.
C11_SendFailureGivesNotice ==
    [][\A m \in Step3Forms :
         (modals[m].pc = "send" /\ Did(modals'[m], "send_raised"))
             => /\ Did(modals'[m], "summary")
                /\ last' = Show(modals[m].user, "email_failed_notice")
                /\ modals'[m].pc = "done"]_vars

\* C12: /order_form with an email that fails validation reports the invalid
\* input, creates or modifies no session and presents no Step-1 form.
C12_InvalidEmailTouchesNothing ==
    [][\A u \in Users, email \in Emails :
         (~is_valid_email(email) /\ order_form_command(u, email))
             => /\ last' = Show(u, "invalid_email")
                /\ temp_order_data' = temp_order_data
                /\ modals' = modals]_vars

\* An invalid email was reported to a user whose session is in the store.
C12_Witness ==
    /\ last.what = "invalid_email"
    /\ HasSession(last.user)

\* The step in which a valid /order_form presents a new Step-1 form.
StartSucceeds ==
    /\ Len(modals') = Len(modals) + 1
    /\ modals'[Len(modals')].kind = 1

C15_SmtpErrorFailsImmediately ==
    \A c \in Callers :
        LET r == callers[c]
            n == Len(r.hist)
        IN Happened(r, "error")
             => /\ r.op = "send"
                /\ Count(r.hist, "error") = 1
                /\ r.hist[n - 1] = "error" /\ r.hist[n] = "raised"
                /\ r.pc = "idle" /\ r.res = "raised" /\ r.err = "smtp_error"

\* A first transmission failed with an SMTP error, and so did a
\* re-transmission after a reconnect.
C15_Witness ==
    /\ \E c \in Callers : callers[c].hist = <<"tx", "error", "raised">>
    /\ \E c \in Callers :
          callers[c].hist =
              <<"tx", "disc", "reconnect", "reconnect_ok", "tx", "error", "raised">>

\* C16: a send that was not connected and did not get to transmit, because
\* connect failed, fails with the delivery error "cannot send, no connection"
\* and not with the connection error.
C16_NoConnectionIsDeliveryError ==
    \A c \in Callers :
        LET r == callers[c] IN
        (r.op = "send" /\ r.res = "raised" /\ r.hist = <<"raised">>)
            => r.err = "no_connection"

\* The step in which the connect() that caller c is in fails: c leaves the
\* awaits of connect() and its transport is not logged in.
ConnectFailed(c) ==
    /\ callers[c].pc \in {"connecting", "login"}
    /\ callers'[c].pc \notin {"connecting", "login"}
    /\ ~transports'[callers[c].tx].auth

\* C17: when connect fails, at the transport's connect or at login, the
\* service keeps no client and the caller of connect gets the error.
C17_FailedConnectKeepsNoClient ==
    [][\A c \in Callers :
         ConnectFailed(c)
             => /\ client' = 0
                /\ callers'[c].pc = "idle" /\ callers'[c].res = "raised"
                /\ callers'[c].err =
                       IF callers[c].via = "retry" THEN "after_retries"
                       ELSE "connect_error"]_vars

\* A connect() called by the bot failed at login, after its transport was
\* opened.
C17_Witness ==
    \E c \in Callers :
        /\ callers[c].op = "connect"
        /\ callers[c].res = "raised" /\ callers[c].err = "connect_error"
        /\ callers[c].tx # 0 /\ transports[callers[c].tx].state = "open"
        /\ client = 0

\* C18: whenever a call of close ends, the service retains no connected
\* client.
C18_CloseLeavesDisconnected ==
    [][\A c \in Callers :
         (callers'[c] # callers[c] /\ callers'[c].op = "close"
            /\ callers'[c].pc = "idle")
             => (client' = 0 \/ transports'[client'].state # "open")]_vars

\* The step in which caller c's connect() gets to its check of the client.
ConnectEntered(c) ==
    \/ lock = <<>> /\ ConnectStart(c)
    \/ callers[c].op = "connect" /\ LockGranted(c)

\* C19: connect on a connected service is a no-op: no transport is created,
\* none is logged in, the client stays the same and the call returns.
C19_ConnectWhenConnectedIsNoOp ==
    [][\A c \in Callers :
         (IsConnected(client) /\ ConnectEntered(c))
             => /\ transports' = transports
                /\ client' = client
                /\ callers'[c].pc = "idle" /\ callers'[c].res = "returned"]_vars

\* A connect() that returned without creating a transport, on a connected
\* service.
C19_Witness ==
    \E c \in Callers :
        /\ callers[c].op = "connect" /\ callers[c].res = "returned"
        /\ callers[c].tx = 0
        /\ IsConnected(client)

\* ------------------------------------------------ claims on pure functions
\* t is not empty and made of characters of chars.
Over(t, chars) == Len(t) > 0 /\ \A k \in 1..Len(t) : t[k] \in chars

\* s is local@domain.rest with the three parts over the documented classes.
DocumentedForm(s) ==
    \E i \in 1..Len(s), j \in 1..Len(s) :
        /\ i < j
        /\ s = SubSeq(s, 1, i - 1) \o <<"@">> \o SubSeq(s, i + 1, j - 1)
                 \o <<".">> \o SubSeq(s, j + 1, Len(s))
        /\ Over(SubSeq(s, 1, i - 1), LocalChars)
        /\ Over(SubSeq(s, i + 1, j - 1), DomainChars)
        /\ Over(SubSeq(s, j + 1, Len(s)), RestChars)

NoAt(s) == \A k \in 1..Len(s) : s[k] # "@"

NoDotAfterAt(s) ==
    \E i \in 1..Len(s) : s[i] = "@" /\ \A k \in (i + 1)..Len(s) : s[k] # "."

EmptyLocal(s) == Len(s) > 0 /\ s[1] = "@"

\* C13: is_valid_email answers true for every string of the documented form
\* local@domain.rest, and false for every string without an "@", without a
\* dot after the "@", with an empty local part, and for the empty string.
C13_ValidationMatchesPattern ==
    email_out.done =>
        /\ DocumentedForm(email_in) => email_out.valid
        /\ (NoAt(email_in) \/ NoDotAfterAt(email_in) \/ EmptyLocal(email_in)
              \/ email_in = <<>>) => ~email_out.valid

\* An address whose local part is a character of the local class only and
\* whose last part has dots was accepted.
C13_Witness ==
    /\ email_out.done /\ email_out.valid
    /\ email_in = <<"_", "@", "a", ".", "a", ".">>

\* The template with the placeholders of the keys of data replaced by their
\* values, all at once, from position i on.
RECURSIVE SubstFrom(_, _, _)
SubstFrom(s, i, data) ==
    LET here == {k \in DOMAIN data : StartsWith(s, i, Placeholder(k))} IN
    IF i > Len(s) THEN <<>>
    ELSE IF here # {}
         THEN data[CHOOSE k \in here : TRUE]
                  \o SubstFrom(s, i + Len(Placeholder("x")), data)
         ELSE <<s[i]>> \o SubstFrom(s, i + 1, data)

\* C20: the body is the template's html_body with every occurrence of the
\* placeholder of a key of the data replaced by that key's value; every other
\* placeholder stays as it is.
C20_BodyIsTemplateWithValues ==
    body_out.done =>
        body_out.body = SubstFrom(GetHtmlBody(body_in.template), 1, body_in.data)

\* -------------------------------------------- claims on the order of steps
\* The step in which form m is submitted.
Submitted(m) == modals[m].pc = "open" /\ modals'[m].pc # "open"

\* The step in which a new form of the given kind is presented.
Presented(kind) ==
    /\ Len(modals') = Len(modals) + 1
    /\ modals'[Len(modals')].kind = kind

\* C21: a Step-1 or Step-2 submit opens no form, it presents the button to
\* continue; a Step-2 or Step-3 form is presented only by the click on the
\* button of a submitted form of the step before, of the same flow and user.
C21_NextFormOnlyOnClick ==
    [][/\ \A m \in ModalIds :
            (modals[m].kind \in {1, 2} /\ Submitted(m) /\ modals'[m].pc = "submitted")
                => /\ Len(modals') = Len(modals)
                   /\ last' = Show(modals[m].user,
                                   IF modals[m].kind = 1 THEN "continue2"
                                   ELSE "continue3")
       /\ \A kind \in {2, 3} :
            Presented(kind)
                => \E m \in ModalIds :
                      /\ modals[m].kind = kind - 1 /\ modals[m].pc = "submitted"
                      /\ modals'[Len(modals')].flow = modals[m].flow
                      /\ modals'[Len(modals')].user = modals[m].user
                      /\ IF kind = 2 THEN ContinueStep2(m) ELSE ContinueFinal(m)]_vars

\* A flow whose Step-2 form was presented and submitted and whose Step-3 form
\* was not presented yet.
C21_Witness ==
    \E m \in ModalIds :
        /\ modals[m].kind = 2 /\ modals[m].pc = "submitted"
        /\ \A k \in ModalIds : ~(modals[k].kind = 3 /\ modals[k].flow = modals[m].flow)

\* C22: a session only moves forward: a Step-2 form is not submitted for a
\* flow whose Step 2 is recorded already, and no Step-3 form is submitted for
\* a flow that has completed.
C22_NoStepTwice ==
    [][\A m \in ModalIds :
         Submitted(m)
             => /\ modals[m].kind = 2
                  => \A k \in ModalIds :
                        ~(k # m /\ modals[k].kind = 2
                            /\ modals[k].flow = modals[m].flow
                            /\ modals[k].pc = "submitted")
                /\ modals[m].kind = 3
                  => \A k \in ModalIds :
                        ~(k # m /\ modals[k].kind = 3
                            /\ modals[k].flow = modals[m].flow
                            /\ modals[k].pc = "done")]_vars

\* C23: every record of the store that has step-2 fields has step-1 fields.
C23_Step2ImpliesStep1 ==
    \A u \in DOMAIN temp_order_data :
        "step2_data" \in DOMAIN temp_order_data[u]
            => /\ "step1_data" \in DOMAIN temp_order_data[u]
               /\ DOMAIN temp_order_data[u]["step1_data"] = Step1Keys

\* A record with the fields of both steps.
C23_Witness ==
    \E u \in DOMAIN temp_order_data :
        /\ "step2_data" \in DOMAIN temp_order_data[u]
        /\ DOMAIN temp_order_data[u]["step2_data"] = Step2Keys

\* C24: the merge of every Step-3 form that can be submitted has the nine
\* keys the summary reads, and no Step-3 submit fails on a missing key.
C24_MergedOrderHasRequiredKeys ==
    \A m \in Step3Forms :
        /\ modals[m].pc = "open"
             => SummaryKeys \subseteq
                    DOMAIN MergedData(modals[m].step1_data, modals[m].step2_data,
                                      FormData(Step3Keys, "x"))
        /\ ~Did(modals[m], "KeyError")

\* The record of user u is not what it was.
RecordChanged(u) ==
    \/ (u \in DOMAIN temp_order_data) # (u \in DOMAIN temp_order_data')
    \/ /\ u \in DOMAIN temp_order_data /\ u \in DOMAIN temp_order_data'
       /\ temp_order_data'[u] # temp_order_data[u]

\* C28: a record stays in the store as it is until its own user acts: it is
\* removed only when a Step-3 handler of that user completes, replaced only
\* by a Step-1 submit of that user, and completed with step-2 fields only by
\* a Step-2 submit of that user.
C28_RecordChangesOnlyByOwner ==
    [][\A u \in DOMAIN temp_order_data :
         RecordChanged(u)
             => \E m \in ModalIds :
                   /\ modals[m].user = u
                   /\ IF u \notin DOMAIN temp_order_data'
                      THEN modals[m].kind = 3 /\ modals[m].pc = "send"
                             /\ modals'[m].pc = "done"
                      ELSE modals[m].kind \in {1, 2} /\ Submitted(m)
                             /\ (modals[m].kind = 2
                                   => /\ temp_order_data'[u]["email"]
                                           = temp_order_data[u]["email"]
                                      /\ temp_order_data'[u]["step1_data"]
                                           = temp_order_data[u]["step1_data"])]_vars

\* One user's flow completed while the record of another user, who has not
\* gone on, is in the store.
C28_Witness ==
    \E m \in Step3Forms, k \in Flows :
        /\ modals[m].pc = "done"
        /\ modals[k].user # modals[m].user
        /\ modals[k].pc = "submitted"
        /\ HasSession(modals[k].user)

\* C29: when the record is absent at the delete that ends a Step-3 handler,
\* the delete changes nothing and the handler completes.
C29_DeleteAbsentIsNoOp ==
    [][\A m \in Step3Forms :
         (modals[m].pc = "send" /\ Did(modals'[m], "send_returned")
            /\ ~HasSession(modals[m].user))
             => /\ temp_order_data' = temp_order_data
                /\ modals'[m].pc = "done"
                /\ Did(modals'[m], "delete_absent")]_vars

\* The second of two Step-3 submits of one flow completed after the first had
\* deleted the record.
C29_Witness ==
    \E m \in Step3Forms, k \in Step3Forms :
        /\ m # k /\ modals[m].flow = modals[k].flow
        /\ Did(modals[m], "deleted")
        /\ Did(modals[k], "delete_absent") /\ modals[k].pc = "done"

\* ------------------------------------------------- claims on termination
\* C26: when every transport operation terminates, every send that was
\* called, one that waits for the lock behind another caller included,
\* eventually returns or raises (MaxTransports SMTP objects can be created in
\* a run: a call that needs one more is left out); a caller that finds the
\* lock taken is queued, it is not turned away.
C26_EverySendEnds ==
    /\ \A c \in Callers :
         (callers[c].op = "send" /\ callers[c].pc # "idle")
             ~> (\/ callers[c].pc = "idle" /\ callers[c].res \in {"returned", "raised"}
                 \/ Len(transports) = MaxTransports)
    /\ [][\A c \in Callers :
            (callers[c].pc = "idle" /\ callers'[c].pc # "idle" /\ lock # <<>>
               /\ ~(callers'[c].op = "send" /\ IsConnected(client)))
                => /\ callers'[c].pc = "lock_wait"
                   /\ lock' = Append(lock, c)]_vars

\* A send that waits in the queue of the lock behind the caller that holds it.
C26_Witness ==
    \E c \in Callers :
        /\ callers[c].op = "send" /\ callers[c].pc = "lock_wait"
        /\ Len(lock) = 2 /\ lock[2] = c

\* --------------------------------------------- claims on recovery, main.py
\* C27: after a failed send, every send called while the mail server is
\* reachable and accepts connections, credentials and messages succeeds.
C27_LaterSendSucceeds ==
    \A c \in server.later :
        (callers[c].pc = "idle" /\ callers[c].op = "send")
            => callers[c].res = "returned"

\* C25: whatever a user does leaves the record that another user's Step-1
\* submit wrote as it is: the record changes only in a step of a form of the
\* user who wrote it.
C25_OtherUsersRecordUntouched ==
    [][(mono_owner # "none" /\ mono_store' # mono_store)
         => \E m \in MonoIds :
               /\ mono_forms[m].user = mono_owner
               /\ mono_forms'[m] # mono_forms[m]]_vars

\* C30: send_email returns True when the email was sent and returns False
\* when it could not be sent.
C30_SendEmailReturnsBoolean ==
    \A m \in MonoIds :
        mono_forms[m].pc \in {"done", "failed"} /\ mono_forms[m].call # NoCall
            => /\ mono_forms[m].call.outcome = "returned"
               /\ mono_forms[m].call.value
                    = (IF mono_forms[m].call.sent THEN "True" ELSE "False")

\* ------------------------------------------ claims on restarts and staleness
\* C34: the recipient and the order fields of a Step-3 form come from one
\* start of the flow: the form is built for the flow whose Step-1 and Step-2
\* submits wrote the record its step data is read from.
C34_RecipientAndFieldsOfOneFlow ==
    [][Presented(3)
         => LET f == modals'[Len(modals')] IN
            /\ origin[f.user].s1 = f.flow
            /\ origin[f.user].s2 = f.flow]_vars

\* C35: a Step-3 handler deletes only the record of the flow it completes,
\* not the record a later start of the same user has written.
C35_DeletesOnlyItsOwnSession ==
    [][\A m \in Step3Forms :
         (modals[m].pc = "send" /\ Did(modals'[m], "deleted"))
             => origin[modals[m].user].s1 = modals[m].flow]_vars

\* C36: the step-1 and step-2 fields merged at a Step-3 submit are the ones
\* the store holds for the user at that moment.
C36_MergeReadsStoreAtSubmit ==
    [][\A m \in Step3Forms :
         (Submitted(m) /\ HasSession(modals[m].user))
             => LET rec == temp_order_data[modals[m].user]
                    merged_data == modals'[m].merged_data
                IN /\ \A k \in DOMAIN rec["step1_data"] :
                        k \in DOMAIN merged_data
                          /\ merged_data[k] = rec["step1_data"][k]
                   /\ \A k \in DOMAIN GetStep2(rec) :
                        k \in DOMAIN merged_data
                          /\ merged_data[k] = GetStep2(rec)[k]]_vars

\* ------------------------------------------------ claims on the client
\* C32: the client changes only in steps of the caller that holds the lock,
\* so a connect() whose transport connect and login succeed leaves the
\* service connected with the client it created.
C32_ClientChangesOnlyUnderLock ==
    [][/\ client' # client
          => \E c \in Callers :
                /\ callers'[c] # callers[c]
                /\ \/ lock # <<>> /\ Head(lock) = c
                   \/ lock' # <<>> /\ Head(lock') = c
       /\ \A c \in Callers :
            (callers[c].pc = "login" /\ callers'[c].pc # "login"
               /\ transports'[callers[c].tx].auth)
                => /\ client' = callers[c].tx
                   /\ IsConnected(client)']_vars

\* ------------------------------------------- claims on the substitution
\* The loop of the body rendering when the dictionary yields its keys in the
\* given order, from the i-th key on.
RECURSIVE ReplaceKeysInOrder(_, _, _, _)
ReplaceKeysInOrder(html_body, email_data, order, i) ==
    IF i > Len(order) THEN html_body
    ELSE LET key == order[i] IN
         ReplaceKeysInOrder(IF key \in DOMAIN email_data
                            THEN str_replace(html_body, Placeholder(key),
                                             email_data[key])
                            ELSE html_body,
                            email_data, order, i + 1)

\* C38: the rendered body is the one simultaneous substitution over the
\* original template gives, a value that holds the text of a placeholder is
\* inserted as it is, and the body does not depend on the order of the fields.
C38_SubstitutionIsSimultaneous ==
    body_out.done =>
        LET html_body == GetHtmlBody(body_in.template) IN
        /\ body_out.body = SubstFrom(html_body, 1, body_in.data)
        /\ body_out.body
             = ReplaceKeysInOrder(html_body, body_in.data, <<"notes", "product_name">>, 1)

\* ------------------------------------- claims on the asynchronous send_email
\* C31: whatever fails inside the transport block of the asynchronous
\* send_email, the call returns None and raises nothing, and the Step-3
\* handler that awaited it goes on to delete the session and completes.
C31_AsyncSendNeverRaises ==
    [][\A m \in Step3Forms :
         (modals[m].pc = "send" /\ modals'[m] # modals[m])
             => /\ asend'.form = m
                /\ asend'.call.outcome = "returned"
                /\ asend'.call.value = "None"
                /\ asend'.call.sent = (asend'.fault = NoFault)
                /\ modals'[m].pc = "done"
                /\ modals[m].user \notin DOMAIN temp_order_data']_vars

\* A send that failed on an error no SMTP clause takes has returned, and its
\* handler has deleted the session.
C31_Witness ==
    /\ asend.form \in ModalIds
    /\ asend.fault.error = "OSError"
    /\ asend.call.handler = "Exception"
    /\ Did(modals[asend.form], "deleted")

\* ------------------------------------------- claims on the maintenance
\* The step is a run of cleanup_task.
CleanupRuns == maint_last.op # "cleanup_task" /\ maint_last'.op = "cleanup_task"

\* The bucket of a key has a timestamp younger than bucket_ttl.
ActiveBucket(bucket, now) ==
    \E i \in 1..Len(bucket) : now - bucket[i] < bucket_ttl

\* C33: a run of cleanup_task removes from order_data exactly the entries
\* whose timestamp is more than 3600 seconds old, an entry without timestamp
\* among them, and leaves in rate_limit_buckets exactly the buckets with a
\* call in the last 300 seconds.
C33_CleanupRemovesExpired ==
    [][CleanupRuns
         => /\ DOMAIN order_data'
                 = {u \in DOMAIN order_data :
                       /\ "timestamp" \in DOMAIN order_data[u]
                       /\ clock - order_data[u]["timestamp"] <= order_ttl}
            /\ \A u \in DOMAIN order_data' : order_data'[u] = order_data[u]
            /\ DOMAIN rate_limit_buckets'
                 = {k \in DOMAIN rate_limit_buckets :
                       ActiveBucket(rate_limit_buckets[k], clock)}]_vars

\* The allowed calls of a caller in the window that ends at instant t.
AllowedIn(who, t) ==
    {i \in 1..Len(rate_hist[who]) :
        t - rate_hist[who][i] < window /\ rate_hist[who][i] <= t}

\* The step is a call of is_rate_limited.
RateCalled ==
    /\ maint_last'.op = "is_rate_limited"
    /\ maint_last' # maint_last \/ rate_hist' # rate_hist

\* C37: a call of is_rate_limited is allowed exactly when fewer than Limit
\* allowed calls of its key lie in the last window seconds; only allowed calls
\* are recorded; the buckets of other keys stay as they are; and no window
\* holds more than Limit allowed calls of one key.
C37_SlidingWindowPerKey ==
    /\ [][RateCalled
            => LET who == maint_last'.who
                   key == RateKey(who.user_id, who.command)
               IN /\ maint_last'.result
                       = (Cardinality(AllowedIn(who, clock)) >= Limit)
                  /\ rate_limit_buckets'[key]
                       = RecentOnly(rate_hist'[who], clock, window)
                  /\ \A other \in RateCallers \ {who} :
                       LET k == RateKey(other.user_id, other.command) IN
                       /\ (k \in DOMAIN rate_limit_buckets')
                            = (k \in DOMAIN rate_limit_buckets)
                       /\ k \in DOMAIN rate_limit_buckets
                            => rate_limit_buckets'[k] = rate_limit_buckets[k]]_vars
    /\ [](\A who \in RateCallers, t \in Times :
             Cardinality(AllowedIn(who, t)) <= Limit)

\* A caller was refused at its limit while the other caller was allowed, and
\* was allowed again once its window had passed.
C37_Witness ==
    \E who \in RateCallers, other \in RateCallers :
        /\ who # other
        /\ Len(rate_hist[who]) > Limit
        /\ Len(rate_hist[other]) > 0
        /\ maint_last = [op |-> "is_rate_limited", who |-> who, result |-> TRUE]

====
